---- MODULE Spec2Model ----
(***************************************************************************)
(* Job lifecycle of the content visualiser backend (backend/app/main.py)   *)
(* together with the strategy registry and the error wrapping of the       *)
(* generation path (services/llm_service.py, services/visualizations).     *)
(*                                                                         *)
(* The event loop is cooperative: a handler or a background task runs      *)
(* without interruption between two awaits.  One action therefore models   *)
(* one such run: the request handlers visualize and get_visualization_job  *)
(* (they await nothing), the part of _run_visualization_job that leads to  *)
(* the provider call, and the part that follows the provider's answer.     *)
(*                                                                         *)
(* Python keeps ONE VisualizationJob object per job; the dict _jobs and    *)
(* the task's local variable job both refer to it.  objects[j] is that     *)
(* object, jobs is the set of keys of _jobs (the value under key j being   *)
(* objects[j]).                                                            *)
(*                                                                         *)
(* Spec is the job store with its tasks and request handlers.  The pure    *)
(* parts are examined on their own: SpecFactory (create_strategy),         *)
(* SpecMindmap and SpecFlowchart (the renderings of decoded provider       *)
(* answers), and SpecSingleNode (flowchart jobs whose provider answers     *)
(* with a diagram of one node, rendered and stored by the loop).  SpecFair *)
(* is Spec with the tasks scheduled fairly, for termination.               *)
(***************************************************************************)
EXTENDS Integers, Sequences, FiniteSets, TLC

(* ------------------------------ bounds -------------------------------- *)
MaxJobs == 2
MaxRequests == 3
TickSeconds == 3600
MaxTime == 7200

(* ------------------------- program constants -------------------------- *)
max_attempts == 3
base_delay_tenths == 15
JOB_TTL_SECONDS == 3600

JobIds == 1..MaxJobs
None == "None"

PENDING == "pending"
RUNNING == "running"
SUCCEEDED == "succeeded"
FAILED == "failed"
JobStatus == {PENDING, RUNNING, SUCCEEDED, FAILED}
Terminal == {SUCCEEDED, FAILED}

(* --------------------------- type names ------------------------------- *)
(* The visualization_type strings a request may carry.                     *)
RequestTypes == {"flowchart", "Mindmap", "piechart"}

(* str.lower() on the type names above.                                    *)
Lower(t) ==
  CASE t \in {"Mindmap", "MINDMAP"} -> "mindmap"
    [] t \in {"Flowchart", "FLOWCHART"} -> "flowchart"
    [] t \in {"PieChart", "PIECHART"} -> "piechart"
    [] t = "Decision" -> "decision"
    [] OTHER -> t

(* VisualizationFactory.__init__ / register_strategy: the keys of          *)
(* _strategies are the lower-cased registered names.                       *)
strategies == {Lower("flowchart"), Lower("mindmap")}

get_supported_types == strategies

(* Variant of create_strategy: the name is looked up as it is given.       *)
create_strategy_exact(type_name) ==
  IF type_name \in strategies
    THEN [kind |-> "strategy", name |-> type_name]
    ELSE [kind |-> "ValueError", name |-> "Unsupported visualization type"]

(* create_strategy: the strategy registered under type_name.lower(), or    *)
(* a ValueError.                                                           *)
create_strategy(type_name) ==
  IF Lower(type_name) \in strategies
    THEN [kind |-> "strategy", name |-> Lower(type_name)]
    ELSE [kind |-> "ValueError", name |-> "Unsupported visualization type"]

(* ---------------------- the generation provider ----------------------- *)
(* What one call of client.aio.models.generate_content can do, by the      *)
(* cases the strategies tell apart:                                        *)
(*   fenced_ok     text with a ```json block that decodes, renders and     *)
(*                 passes validate_content                                 *)
(*   raw_ok        no fenced block; the whole text is JSON that renders    *)
(*                 and validates                                           *)
(*   no_json       no fenced block and the whole text is not JSON          *)
(*   bad_json      a fenced block whose content json.loads rejects         *)
(*   bad_schema    JSON of the wrong shape                                 *)
(*   bad_render    the rendering fails validate_content                    *)
(*   server_503, server_429, server_500                                    *)
(*                 the call raises genai errors.ServerError                *)
(*   other_error   the call raises anything else                           *)
ProviderOutcomes ==
  {"fenced_ok", "raw_ok", "no_json", "bad_json", "bad_schema", "bad_render",
   "server_503", "server_429", "server_500", "other_error"}

TransientOutcomes == {"server_503", "server_429"}

EmptyMetadata == {}

(* A VisualizationResult, and an exception of class cls with text msg.     *)
(* status_code is what the loop's getattr chain finds on a ServerError     *)
(* (0 where an exception carries none).                                    *)
Result(type, content, metadata) ==
  [kind |-> "result", type |-> type, content |-> content,
   metadata |-> metadata, msg |-> None, status_code |-> 0]

Raise(cls, msg, code) ==
  [kind |-> cls, type |-> None, content |-> None,
   metadata |-> EmptyMetadata, msg |-> msg, status_code |-> code]

(* The exception the provider call itself raises, if it raises.            *)
ProviderError(o) ==
  CASE o = "server_503" -> Raise("ServerError", "503 UNAVAILABLE", 503)
    [] o = "server_429" -> Raise("ServerError", "429 RESOURCE_EXHAUSTED", 429)
    [] o = "server_500" -> Raise("ServerError", "500 INTERNAL", 500)
    [] OTHER -> Raise("Exception", "connection error", 0)

(* FlowchartStrategy.generate, the body of its try block: the result or    *)
(* the exception raised inside it.                                         *)
FlowchartTry(o) ==
  CASE o \in {"fenced_ok", "raw_ok"} ->
         Result("flowchart", "flowchart TD ...", EmptyMetadata)
    [] o = "no_json" ->
         Raise("ValueError",
               "LLM response did not contain a valid JSON block or raw JSON.", 0)
    [] o = "bad_json" -> Raise("JSONDecodeError", "Expecting value", 0)
    [] o = "bad_schema" ->
         Raise("AttributeError", "object has no attribute 'get'", 0)
    [] o = "bad_render" ->
         Raise("ValueError", "Generated Mermaid flowchart content is invalid.", 0)
    [] OTHER -> ProviderError(o)

(* Variant of FlowchartExcept: a ServerError of the provider call is not   *)
(* caught by the strategy.                                                 *)
FlowchartExceptPassesServerError(r) ==
  CASE r.kind \in {"result", "ServerError"} -> r
    [] r.kind = "JSONDecodeError" ->
         Raise("ValueError",
               "Failed to parse JSON from LLM response: " \o r.msg, 0)
    [] OTHER ->
         Raise("RuntimeError", "Flowchart generation failed: " \o r.msg, 0)

(* FlowchartStrategy.generate: the except clauses applied to the try body. *)
(* Only json.JSONDecodeError becomes a ValueError; every other exception,  *)
(* the ValueErrors raised in the try body included, is caught by           *)
(* "except Exception" and becomes a RuntimeError.                          *)
FlowchartExcept(r) ==
  CASE r.kind = "result" -> r
    [] r.kind = "JSONDecodeError" ->
         Raise("ValueError",
               "Failed to parse JSON from LLM response: " \o r.msg, 0)
    [] OTHER ->
         Raise("RuntimeError", "Flowchart generation failed: " \o r.msg, 0)

(* FlowchartStrategy.generate for a provider outcome.                      *)
FlowchartGenerate(o) == FlowchartExcept(FlowchartTry(o))

(* MindmapStrategy.generate, the body of its try block.  Without a fenced  *)
(* block it raises at once; the whole text is never parsed.                *)
MindmapTry(o) ==
  CASE o = "fenced_ok" ->
         Result("mindmap", "# root ...",
                {<<"total_nodes", 3>>, <<"actual_depth", 2>>,
                 <<"requested_max_depth", 4>>})
    [] o \in {"raw_ok", "no_json"} ->
         Raise("ValueError", "LLM response did not contain a valid JSON block.", 0)
    [] o = "bad_json" -> Raise("JSONDecodeError", "Expecting value", 0)
    [] o = "bad_schema" ->
         Raise("ValidationError", "1 validation error for MindmapNode", 0)
    [] o = "bad_render" ->
         Raise("ValueError", "Generated mindmap markdown content is invalid.", 0)
    [] OTHER -> ProviderError(o)

(* MindmapStrategy.generate: the except clauses applied to the try body.   *)
MindmapGenerate(o) ==
  LET r == MindmapTry(o) IN
    CASE r.kind = "result" -> r
      [] r.kind = "ValidationError" ->
           Raise("ValueError",
                 "LLM generated invalid JSON for Mindmap: " \o r.msg, 0)
      [] r.kind = "JSONDecodeError" ->
           Raise("ValueError",
                 "Failed to parse JSON from LLM response: " \o r.msg, 0)
      [] OTHER ->
           Raise("RuntimeError", "Mindmap generation failed: " \o r.msg, 0)

(* The except clauses of generate_visualization: a ValueError is raised    *)
(* again as ValueError and anything else as RuntimeError.                  *)
Reraise(visualization_type, r) ==
  CASE r.kind = "result" -> r
    [] r.kind = "ValueError" ->
         Raise("ValueError", "Visualization error: " \o r.msg, 0)
    [] OTHER ->
         Raise("RuntimeError",
               "Failed to generate visualization of type '"
                 \o visualization_type \o "': " \o r.msg, 0)

(* generate_visualization: create the strategy and run it, under those     *)
(* except clauses.                                                         *)
generate_visualization(visualization_type, o) ==
  LET s == create_strategy(visualization_type) IN
    Reraise(visualization_type,
            IF s.kind = "ValueError" THEN Raise("ValueError", s.name, 0)
            ELSE IF s.name = "flowchart" THEN FlowchartGenerate(o)
            ELSE MindmapGenerate(o))

(* ------------------------------ state --------------------------------- *)
VARIABLES
  objects,      \* the VisualizationJob objects, by job id
  jobs,         \* the keys of the dict _jobs
  pc,           \* where the background task of each job stands
  attempt,      \* the loop variable of each background task
  taskType,     \* the visualization_type argument of each background task
  delay,        \* the delay of the task's last asyncio.sleep, in 1/10 s
  now,          \* datetime.utcnow(), in seconds
  req,          \* the latest request
  resp,         \* the response to it
  requests,     \* the number of requests handled
  calls,        \* history: generate_visualization calls started, per job
  lastOutcome,  \* history: what the provider did in the job's latest call
  purged,       \* history: the ids a poll has removed as expired
  latePolls,    \* history: the ids polled again after such a removal
  seen,         \* history: the bodies polls returned for a finished job
  call,         \* the call of a single function under examination
  ret           \* what that call returned

vars ==
  <<objects, jobs, pc, attempt, taskType, delay, now, req, resp, requests,
    calls, lastOutcome, purged, latePolls, seen, call, ret>>

(* The ids visualize has issued: those with an object.                     *)
issued == DOMAIN objects

(* uuid.uuid4(): an identifier that has not been issued.  Identifiers are  *)
(* opaque (no operation orders or inspects them), so every choice of a     *)
(* fresh one leads to the same behaviours up to renaming; the least one is *)
(* taken.  The set is empty once the model's identifiers are used up.      *)
uuid4 == {j \in JobIds \ issued : \A k \in JobIds \ issued : j <= k}

(* A request: POST /visualize with a visualization_type, or               *)
(* GET /visualize/{job_id}.                                                *)
Request(op, type, id) == [op |-> op, visualization_type |-> type, job_id |-> id]

(* A response: of visualize (job_id and status on 200) or of               *)
(* get_visualization_job (VisualizationJobStatusResponse on 200).          *)
Response(op, code, id, st, type, content, metadata, error) ==
  [op |-> op, code |-> code, job_id |-> id, status |-> st,
   visualization_type |-> type, content |-> content,
   metadata |-> metadata, error |-> error]

ErrorResponse(op, code, id) ==
  Response(op, code, id, None, None, None, EmptyMetadata, None)

(* No response yet.                                                        *)
NoBody == ErrorResponse(None, 0, 0)

(* No function has been called on its own.                                 *)
NoCall == [fn |-> None]

Init ==
  /\ objects = <<>>
  /\ jobs = {}
  /\ pc = [j \in JobIds |-> "none"]
  /\ attempt = [j \in JobIds |-> 0]
  /\ taskType = [j \in JobIds |-> None]
  /\ delay = [j \in JobIds |-> 0]
  /\ now = 0
  /\ req = Request(None, None, 0)
  /\ resp = NoBody
  /\ requests = 0
  /\ calls = [j \in JobIds |-> 0]
  /\ lastOutcome = [j \in JobIds |-> None]
  /\ purged = {}
  /\ latePolls = {}
  /\ seen = [j \in JobIds |-> <<>>]
  /\ call = NoCall
  /\ ret = None

(* ---------------------------- visualize ------------------------------- *)
(* Variant of NewJob: the TTL is not added to expires_at.                  *)
NewJobNoTTL(job_id, visualization_type, t) ==
  [id |-> job_id, status |-> PENDING,
   visualization_type |-> Lower(visualization_type),
   content |-> None, metadata |-> EmptyMetadata, error |-> None,
   created_at |-> t,
   expires_at |-> t, attempts |-> 0]

(* The VisualizationJob visualize constructs.                              *)
NewJob(job_id, visualization_type, t) ==
  [id |-> job_id, status |-> PENDING,
   visualization_type |-> Lower(visualization_type),
   content |-> None, metadata |-> EmptyMetadata, error |-> None,
   created_at |-> t,
   expires_at |-> t + JOB_TTL_SECONDS, attempts |-> 0]

(* Variant of Visualize: the job is stored and its task created before    *)
(* the type is validated.                                                  *)
VisualizeStoresFirst(t) ==
  /\ requests < MaxRequests
  /\ requests' = requests + 1
  /\ req' = Request("visualize", t, 0)
  /\ \E job_id \in uuid4 :
       /\ objects' = [k \in issued \cup {job_id} |->
                        IF k = job_id THEN NewJob(job_id, t, now)
                        ELSE objects[k]]
       /\ jobs' = jobs \cup {job_id}
       /\ pc' = [pc EXCEPT ![job_id] = "created"]
       /\ taskType' = [taskType EXCEPT ![job_id] = t]
       /\ resp' = IF Lower(t) \notin get_supported_types
                    THEN ErrorResponse("visualize", 400, 0)
                    ELSE Response("visualize", 200, job_id, PENDING,
                                  None, None, EmptyMetadata, None)
  /\ UNCHANGED <<attempt, delay, now, calls, lastOutcome, purged, latePolls, seen>>
  /\ UNCHANGED <<call, ret>>

(* POST /visualize with visualization_type t: 400 for a type whose lower   *)
(* case is not supported; otherwise the job is stored, the background task *)
(* is created (it has not run yet) and the id is returned.                 *)
Visualize(t) ==
  /\ requests < MaxRequests
  /\ requests' = requests + 1
  /\ req' = Request("visualize", t, 0)
  /\ IF Lower(t) \notin get_supported_types
       THEN /\ resp' = ErrorResponse("visualize", 400, 0)
            /\ UNCHANGED <<objects, jobs, pc, taskType>>
       ELSE \E job_id \in uuid4 :
              /\ objects' = [k \in issued \cup {job_id} |->
                               IF k = job_id THEN NewJob(job_id, t, now)
                               ELSE objects[k]]
              /\ jobs' = jobs \cup {job_id}
              /\ pc' = [pc EXCEPT ![job_id] = "created"]
              /\ taskType' = [taskType EXCEPT ![job_id] = t]
              /\ resp' = Response("visualize", 200, job_id, PENDING,
                                  None, None, EmptyMetadata, None)
  /\ UNCHANGED <<attempt, delay, now, calls, lastOutcome, purged, latePolls, seen>>
  /\ UNCHANGED <<call, ret>>

(* ---------------------- _run_visualization_job ------------------------ *)
(* Variant of MarkRunning: the status is written, the attempt number is    *)
(* not.                                                                    *)
MarkRunningStatusOnly(job, a) ==
  [job EXCEPT !.status = RUNNING]

(* Variant of MarkRunning: the attempt number is written, the status is    *)
(* not.                                                                    *)
MarkRunningAttemptOnly(job, a) ==
  [job EXCEPT !.attempts = a]

(* Variant of MarkRunning: the attempt is counted twice.                   *)
MarkRunningCountsTwice(job, a) ==
  [job EXCEPT !.status = RUNNING, !.attempts = a + 1]

(* Variant of MarkRunning: each attempt renews the time to live.           *)
MarkRunningRenews(job, a) ==
  [job EXCEPT !.status = RUNNING, !.attempts = a,
              !.expires_at = @ + JOB_TTL_SECONDS]

(* The top of the loop body: the job is marked running for this attempt.   *)
MarkRunning(job, a) ==
  [job EXCEPT !.status = RUNNING, !.attempts = a]

(* The loop's status code of a ServerError: the attribute where there is   *)
(* one, otherwise what the text of the exception suggests.                 *)
StatusCode(exc) ==
  IF exc.status_code # 0 THEN exc.status_code
  ELSE CASE exc.msg \in {"503 UNAVAILABLE", "unavailable", "overloaded"} -> 503
         [] exc.msg \in {"429 RESOURCE_EXHAUSTED", "too many requests",
                         "rate limit"} -> 429
         [] OTHER -> 0

(* 2 ** n.                                                                 *)
RECURSIVE Pow2(_)
Pow2(n) == IF n <= 0 THEN 1 ELSE 2 * Pow2(n - 1)

(* The backoff delay after failed attempt a, in tenths of a second.        *)
BackoffDelay(a) == base_delay_tenths * Pow2(a - 1)

(* f"{delay:.1f}" and f"{status_code}" for the values that occur.          *)
DelayText(d) ==
  CASE d = 15 -> "1.5" [] d = 30 -> "3.0" [] d = 60 -> "6.0" [] OTHER -> "?"

StatusText(c) ==
  CASE c = 503 -> "503" [] c = 429 -> "429" [] c = 500 -> "500" [] OTHER -> "None"

(* What the rest of the loop body yields: the job as it leaves it, whether *)
(* the task returns or sleeps and continues the loop, and the delay slept. *)
Outcome(job, next, d) == [job |-> job, next |-> next, delay |-> d]

(* Variant of OnSuccess: the return after the success path is missing, so  *)
(* the for loop goes on to its next attempt.                               *)
OnSuccessNoReturn(job, r) ==
  Outcome([job EXCEPT !.content = r.content, !.metadata = r.metadata,
                      !.status = SUCCEEDED], "sleep", 0)

(* Variant of OnSuccess: the result is stored and the status left as it is. *)
OnSuccessStaysRunning(job, r) ==
  Outcome([job EXCEPT !.content = r.content, !.metadata = r.metadata],
          "return", 0)

(* generate_visualization returned: content and metadata are stored and    *)
(* the job succeeds.                                                       *)
OnSuccess(job, r) ==
  Outcome([job EXCEPT !.content = r.content, !.metadata = r.metadata,
                      !.status = SUCCEEDED], "return", 0)

(* Variant of OnStrategyError: the message is not stored.                  *)
OnStrategyErrorNoMessage(job, r) ==
  Outcome([job EXCEPT !.status = FAILED], "return", 0)

(* Variant of OnStrategyError: the message is stored as content too.       *)
OnStrategyErrorAsContent(job, r) ==
  Outcome([job EXCEPT !.status = FAILED, !.error = r.msg, !.content = r.msg],
          "return", 0)

(* Variant of OnStrategyError: the error is treated as transient, the job  *)
(* goes back to pending and the loop continues.                            *)
OnStrategyErrorRetries(job, r) ==
  Outcome([job EXCEPT !.status = PENDING, !.error = r.msg], "sleep", 0)

(* except (ValueError, RuntimeError): the job fails with str(exc).         *)
OnStrategyError(job, r) ==
  Outcome([job EXCEPT !.status = FAILED, !.error = r.msg], "return", 0)

(* The messages of a job failed on 503 and on 429.                         *)
OverloadMessage ==
  "The Gemini model is still overloaded after multiple attempts. Please wait a bit and try again."

RateLimitMessage ==
  "Gemini rate limit was hit several times in a row. Please slow down and try again shortly."

(* except genai_errors.ServerError: a 503 or 429 with attempts left puts   *)
(* the job back to pending and sleeps; otherwise the job fails with a      *)
(* message chosen by the status code.                                      *)
OnServerError(job, r, a) ==
  LET code == StatusCode(r) IN
    IF code \in {503, 429} /\ a < max_attempts
      THEN Outcome([job EXCEPT
                      !.status = PENDING,
                      !.error = "Transient Gemini error (status="
                                  \o StatusText(code) \o "). Retrying in "
                                  \o DelayText(BackoffDelay(a)) \o "s."],
                   "sleep", BackoffDelay(a))
      ELSE Outcome([job EXCEPT
                      !.status = FAILED,
                      !.error =
                        IF code = 503 THEN OverloadMessage
                        ELSE IF code = 429 THEN RateLimitMessage
                        ELSE "Gemini returned an error while generating the diagram: "
                               \o r.msg],
                   "return", 0)

(* except Exception: the job fails with a wrapped message.                 *)
OnUnexpectedError(job, r) ==
  Outcome([job EXCEPT !.status = FAILED,
                      !.error = "Unexpected error: " \o r.msg], "return", 0)

(* The rest of the loop body, from the return of generate_visualization:   *)
(* the success path, or the first except clause that matches r.            *)
AfterGenerate(job, r, a) ==
  CASE r.kind = "result" -> OnSuccess(job, r)
    [] r.kind \in {"ValueError", "RuntimeError"} -> OnStrategyError(job, r)
    [] r.kind = "ServerError" -> OnServerError(job, r, a)
    [] OTHER -> OnUnexpectedError(job, r)

(* Variant of RunAttempt: a loop that starts a new attempt whenever the    *)
(* last one failed, with no ceiling on the attempts.                       *)
RunAttemptUnbounded(j) ==
  /\ \/ pc[j] \in {"created", "sleeping"}
     \/ pc[j] = "done" /\ j \in issued /\ objects[j].status = FAILED
  /\ IF pc[j] = "created" /\ j \notin jobs
       THEN /\ pc' = [pc EXCEPT ![j] = "done"]
            /\ UNCHANGED <<objects, jobs, attempt, calls>>
       ELSE /\ attempt' = [attempt EXCEPT ![j] = @ + 1]
            /\ objects' = [objects EXCEPT ![j] = MarkRunning(@, attempt'[j])]
            /\ jobs' = jobs \cup {j}
            /\ calls' = [calls EXCEPT ![j] = @ + 1]
            /\ pc' = [pc EXCEPT ![j] = "awaiting"]
  /\ UNCHANGED <<taskType, delay, now, req, resp, requests, lastOutcome,
                 purged, latePolls, seen>>
  /\ UNCHANGED <<call, ret>>

(* Variant of RunAttempt: the task does not look for its record in _jobs   *)
(* when it starts.                                                         *)
RunAttemptNoLookup(j) ==
  /\ pc[j] \in {"created", "sleeping"}
  /\ IF pc[j] = "sleeping" /\ attempt[j] >= max_attempts
       THEN /\ pc' = [pc EXCEPT ![j] = "done"]
            /\ UNCHANGED <<objects, jobs, attempt, calls>>
       ELSE /\ attempt' = [attempt EXCEPT ![j] = @ + 1]
            /\ objects' = [objects EXCEPT ![j] = MarkRunning(@, attempt'[j])]
            /\ jobs' = jobs \cup {j}
            /\ calls' = [calls EXCEPT ![j] = @ + 1]
            /\ pc' = [pc EXCEPT ![j] = "awaiting"]
  /\ UNCHANGED <<taskType, delay, now, req, resp, requests, lastOutcome,
                 purged, latePolls, seen>>
  /\ UNCHANGED <<call, ret>>

(* The background task of job j runs up to its call of the provider: from  *)
(* its start (it returns at once if _jobs has no record) or from the end   *)
(* of its backoff sleep (the for loop takes its next value, or is          *)
(* exhausted).  It marks the job running, writes it to _jobs and calls     *)
(* generate_visualization.  The sleep may end at any later step; the delay *)
(* asked for is kept in delay[j].                                          *)
RunAttempt(j) ==
  /\ pc[j] \in {"created", "sleeping"}
  /\ IF \/ pc[j] = "created" /\ j \notin jobs
        \/ pc[j] = "sleeping" /\ attempt[j] >= max_attempts
       THEN /\ pc' = [pc EXCEPT ![j] = "done"]
            /\ UNCHANGED <<objects, jobs, attempt, calls>>
       ELSE /\ attempt' = [attempt EXCEPT ![j] = @ + 1]
            /\ objects' = [objects EXCEPT ![j] = MarkRunning(@, attempt'[j])]
            /\ jobs' = jobs \cup {j}
            /\ calls' = [calls EXCEPT ![j] = @ + 1]
            /\ pc' = [pc EXCEPT ![j] = "awaiting"]
  /\ UNCHANGED <<taskType, delay, now, req, resp, requests, lastOutcome,
                 purged, latePolls, seen>>
  /\ UNCHANGED <<call, ret>>

(* The task of job j resumes after its awaited generate_visualization      *)
(* returned or raised r, the provider having answered o, and runs on to    *)
(* its return or to its backoff sleep.                                     *)
TaskResumes(j, r, o) ==
  /\ LET h == AfterGenerate(objects[j], r, attempt[j])
     IN /\ objects' = [objects EXCEPT ![j] = h.job]
        /\ jobs' = jobs \cup {j}
        /\ pc' = [pc EXCEPT ![j] = IF h.next = "sleep" THEN "sleeping" ELSE "done"]
        /\ delay' = [delay EXCEPT ![j] = h.delay]
  /\ lastOutcome' = [lastOutcome EXCEPT ![j] = o]
  /\ UNCHANGED <<attempt, taskType, now, req, resp, requests, calls, purged,
                 latePolls, seen>>
  /\ UNCHANGED <<call, ret>>

(* The provider call of job j ends with outcome o, and the task runs on    *)
(* to its return or to its backoff sleep.                                  *)
GenerateReturns(j, o) ==
  /\ pc[j] = "awaiting"
  /\ TaskResumes(j, generate_visualization(taskType[j], o), o)

(* ---------------------- get_visualization_job ------------------------- *)
(* Variant of IsExpired: the comparison is the wrong way round.            *)
IsExpiredInverted(job, t) == job.expires_at > t

(* Variant of IsExpired: a job counts as expired at its deadline already.  *)
IsExpiredAtDeadline(job, t) == job.expires_at <= t

(* job.expires_at < datetime.utcnow()                                      *)
IsExpired(job, t) == job.expires_at < t

(* The VisualizationJobStatusResponse of a job.                            *)
StatusResponse(job) ==
  Response("get", 200, job.id, job.status, job.visualization_type,
           job.content, job.metadata, job.error)

(* The bodies returned for a job in a terminal status are kept.            *)
Record(history, body) ==
  IF body.status \in Terminal THEN Append(history, body) ELSE history

(* Variant of Poll: the content of a finished job is handed out once and   *)
(* then dropped from the record.                                           *)
PollConsumes(j) ==
  /\ requests < MaxRequests
  /\ requests' = requests + 1
  /\ req' = Request("get", None, j)
  /\ latePolls' = IF j \in purged THEN latePolls \cup {j} ELSE latePolls
  /\ IF j \notin jobs
       THEN /\ resp' = ErrorResponse("get", 404, j)
            /\ UNCHANGED <<objects, jobs, purged, seen>>
       ELSE IF IsExpired(objects[j], now)
         THEN /\ jobs' = jobs \ {j}
              /\ purged' = purged \cup {j}
              /\ resp' = ErrorResponse("get", 404, j)
              /\ UNCHANGED <<objects, seen>>
         ELSE /\ resp' = StatusResponse(objects[j])
              /\ seen' = [seen EXCEPT ![j] = Record(@, resp')]
              /\ objects' = [objects EXCEPT ![j].content = None]
              /\ UNCHANGED <<jobs, purged>>
  /\ UNCHANGED <<pc, attempt, taskType, delay, now, calls, lastOutcome>>
  /\ UNCHANGED <<call, ret>>

(* GET /visualize/{j}: 404 without a record; an expired record is deleted  *)
(* and 404 returned; otherwise the record's fields are returned.           *)
Poll(j) ==
  /\ requests < MaxRequests
  /\ requests' = requests + 1
  /\ req' = Request("get", None, j)
  /\ latePolls' = IF j \in purged THEN latePolls \cup {j} ELSE latePolls
  /\ IF j \notin jobs
       THEN /\ resp' = ErrorResponse("get", 404, j)
            /\ UNCHANGED <<jobs, purged, seen>>
       ELSE IF IsExpired(objects[j], now)
         THEN /\ jobs' = jobs \ {j}
              /\ purged' = purged \cup {j}
              /\ resp' = ErrorResponse("get", 404, j)
              /\ UNCHANGED seen
         ELSE /\ resp' = StatusResponse(objects[j])
              /\ seen' = [seen EXCEPT ![j] = Record(@, resp')]
              /\ UNCHANGED <<jobs, purged>>
  /\ UNCHANGED <<objects, pc, attempt, taskType, delay, now, calls, lastOutcome>>
  /\ UNCHANGED <<call, ret>>

(* Time passes.                                                            *)
Tick ==
  /\ now + TickSeconds <= MaxTime
  /\ now' = now + TickSeconds
  /\ UNCHANGED <<objects, jobs, pc, attempt, taskType, delay, req, resp,
                 requests, calls, lastOutcome, purged, latePolls, seen>>
  /\ UNCHANGED <<call, ret>>

Next ==
  \/ \E t \in RequestTypes : Visualize(t)
  \/ \E j \in JobIds : RunAttempt(j)
  \/ \E j \in JobIds, o \in ProviderOutcomes : GenerateReturns(j, o)
  \/ \E j \in JobIds : Poll(j)
  \/ Tick

Spec == Init /\ [][Next]_vars

(* The same program under fair scheduling: a task that can run its next    *)
(* step is run by the event loop (asyncio runs every ready task), and      *)
(* every provider call that was started returns or raises.  Requests and   *)
(* the passing of time are left to the environment.                        *)
Fairness ==
  \A j \in JobIds :
    /\ WF_vars(RunAttempt(j))
    /\ WF_vars(\E o \in ProviderOutcomes : GenerateReturns(j, o))

SpecFair == Init /\ [][Next]_vars /\ Fairness

(* ------------------- the strategy registry on its own ----------------- *)
(* The variables of the job store, which a call of a single function       *)
(* leaves alone.                                                           *)
jobVars ==
  <<objects, jobs, pc, attempt, taskType, delay, now, req, resp, requests,
    calls, lastOutcome, purged, latePolls, seen>>

MaxFactoryCalls == 5

(* Type names passed to visualization_factory.create_strategy.             *)
FactoryNames ==
  {"flowchart", "Flowchart", "FLOWCHART", "mindmap", "Mindmap", "MINDMAP",
   "piechart", "PieChart", "PIECHART", ""}

(* The calls of create_strategy made so far and the strategy objects they  *)
(* constructed.                                                            *)
CallsMade == IF call.fn = "create_strategy" THEN call.nth ELSE 0
Constructed == IF call.fn = "create_strategy" THEN ret.constructed ELSE 0

(* visualization_factory.create_strategy(n): the strategy class registered *)
(* under n.lower() is instantiated and returned, or ValueError is raised.  *)
CreateStrategy(n) ==
  /\ CallsMade < MaxFactoryCalls
  /\ call' = [fn |-> "create_strategy", type_name |-> n, nth |-> CallsMade + 1]
  /\ LET r == create_strategy(n)
     IN ret' = [value |-> r,
                constructed |-> Constructed + IF r.kind = "strategy" THEN 1 ELSE 0]
  /\ UNCHANGED jobVars

NextFactory == \E n \in FactoryNames : CreateStrategy(n)

SpecFactory == Init /\ [][NextFactory]_vars

(* ----------------------------- texts ---------------------------------- *)
(* A text is the sequence of its characters.                               *)
Whitespace == {" ", "\n"}

(* "\n".join(parts) and, for n copies of one character, ch * n.            *)
RECURSIVE Join(_)
Join(parts) ==
  IF Len(parts) = 0 THEN <<>>
  ELSE IF Len(parts) = 1 THEN parts[1]
  ELSE parts[1] \o <<"\n">> \o Join(Tail(parts))

Repeat(ch, n) == [i \in 1..n |-> ch]

(* str.strip(): the text without its leading and trailing whitespace.      *)
RECURSIVE Strip(_)
Strip(text) ==
  IF Len(text) = 0 THEN text
  ELSE IF text[1] \in Whitespace THEN Strip(Tail(text))
  ELSE IF text[Len(text)] \in Whitespace
    THEN Strip(SubSeq(text, 1, Len(text) - 1))
  ELSE text

(* The lines of a text.                                                    *)
RECURSIVE Lines(_)
Lines(text) ==
  IF \A i \in 1..Len(text) : text[i] # "\n" THEN <<text>>
  ELSE LET k == CHOOSE i \in 1..Len(text) :
                  text[i] = "\n" /\ \A j \in 1..(i - 1) : text[j] # "\n"
       IN <<SubSeq(text, 1, k - 1)>> \o Lines(SubSeq(text, k + 1, Len(text)))

(* The number of "#" a line starts with.                                   *)
RECURSIVE LeadingHashes(_)
LeadingHashes(line) ==
  IF Len(line) > 0 /\ line[1] = "#" THEN 1 + LeadingHashes(Tail(line)) ELSE 0

(* --------------------- the mindmap rendering -------------------------- *)
MaxTreeNodes == 7
MaxDepthOption == 7

(* Titles: the root is "root", the i-th child of a node adds the digit i   *)
(* to the title of the node, so that titles tell nodes apart.              *)
RootTitle == <<"r", "o", "o", "t">>
Digit(i) == <<"1", "2", "3", "4", "5", "6", "7", "8", "9">>[i]

(* The MindmapNode trees of n nodes under a root of title t, and the lists *)
(* of children of m nodes in all, the first of them being child i.         *)
RECURSIVE TreesOf(_, _), ForestsOf(_, _, _)
TreesOf(n, t) ==
  {[title |-> t, children |-> f] : f \in ForestsOf(n - 1, t, 1)}
ForestsOf(m, t, i) ==
  IF m = 0 THEN {<<>>}
  ELSE UNION {{<<c>> \o f : c \in TreesOf(k, t \o <<Digit(i)>>),
                           f \in ForestsOf(m - k, t, i + 1)} : k \in 1..m}

MindmapTrees == UNION {TreesOf(n, RootTitle) : n \in 1..MaxTreeNodes}

(* Variant of json_to_markdown: pruning starts one level too late.         *)
RECURSIVE json_to_markdown_late(_, _, _)
json_to_markdown_late(node, max_depth, current_depth) ==
  IF current_depth > max_depth THEN <<>>
  ELSE LET heading == Repeat("#", current_depth + 1) \o <<" ">> \o node.title
           child_markdown ==
             [i \in 1..Len(node.children) |->
                json_to_markdown_late(node.children[i], max_depth,
                                      current_depth + 1)]
       IN Join(<<heading>> \o SelectSeq(child_markdown, LAMBDA c : c # <<>>))

(* MindmapStrategy._json_to_markdown: nothing at or below max_depth;       *)
(* otherwise the heading of the node followed by the non-empty renderings  *)
(* of its children, joined by newlines.                                    *)
RECURSIVE json_to_markdown(_, _, _)
json_to_markdown(node, max_depth, current_depth) ==
  IF current_depth >= max_depth THEN <<>>
  ELSE LET heading == Repeat("#", current_depth + 1) \o <<" ">> \o node.title
           child_markdown ==
             [i \in 1..Len(node.children) |->
                json_to_markdown(node.children[i], max_depth, current_depth + 1)]
       IN Join(<<heading>> \o SelectSeq(child_markdown, LAMBDA c : c # <<>>))

(* The sum and the greatest of a sequence of numbers (0 for none).         *)
RECURSIVE SumSeq(_)
SumSeq(ns) == IF Len(ns) = 0 THEN 0 ELSE ns[1] + SumSeq(Tail(ns))

RECURSIVE MaxSeq(_)
MaxSeq(ns) ==
  IF Len(ns) = 0 THEN 0
  ELSE LET m == MaxSeq(Tail(ns)) IN IF ns[1] > m THEN ns[1] ELSE m

(* MindmapStrategy._count_nodes and _calculate_depth.                      *)
RECURSIVE count_nodes(_)
count_nodes(node) ==
  1 + SumSeq([i \in 1..Len(node.children) |-> count_nodes(node.children[i])])

RECURSIVE calculate_depth(_, _)
calculate_depth(node, current_depth) ==
  IF Len(node.children) = 0 THEN current_depth
  ELSE MaxSeq([i \in 1..Len(node.children) |->
                 calculate_depth(node.children[i], current_depth + 1)])

(* The text without its leading whitespace.                                *)
RECURSIVE LStrip(_)
LStrip(text) ==
  IF Len(text) > 0 /\ text[1] \in Whitespace THEN LStrip(Tail(text)) ELSE text

(* re.search(r'^\s*#+\s.+', content, re.MULTILINE): from the start of some *)
(* line, whitespace, one or more "#", a whitespace character and at least  *)
(* one character that is not a newline.                                    *)
HasHeading(content) ==
  \E i \in 1..Len(content) :
    /\ i = 1 \/ content[i - 1] = "\n"
    /\ LET a == LStrip(SubSeq(content, i, Len(content)))
           h == LeadingHashes(a)
       IN /\ h >= 1
          /\ Len(a) >= h + 2
          /\ a[h + 1] \in Whitespace
          /\ a[h + 2] # "\n"

(* MindmapStrategy.validate_content.                                       *)
mindmap_validate_content(content) ==
  /\ Len(content) > 0
  /\ Len(Strip(content)) >= 10
  /\ HasHeading(content)
  /\ Len(content) <= 50000

(* MindmapStrategy.generate from the validated MindmapNode to the end of   *)
(* its try block: the rendering, and the result or the ValueError raised.  *)
MindmapRender(mindmap_data, max_depth) ==
  LET markdown_content == json_to_markdown(mindmap_data, max_depth, 0) IN
    [markdown_content |-> markdown_content,
     result |->
       IF ~mindmap_validate_content(markdown_content)
         THEN Raise("ValueError",
                    "Generated mindmap markdown content is invalid.", 0)
         ELSE Result("mindmap", markdown_content,
                     {<<"total_nodes", count_nodes(mindmap_data)>>,
                      <<"actual_depth", calculate_depth(mindmap_data, 1)>>,
                      <<"requested_max_depth", max_depth>>})]

(* One rendering of a tree the provider returned, with options.max_depth   *)
(* as the request gave it.                                                 *)
RenderMindmap(t, d) ==
  /\ call = NoCall
  /\ call' = [fn |-> "mindmap", tree |-> t, max_depth |-> d]
  /\ ret' = MindmapRender(t, d)
  /\ UNCHANGED jobVars

NextMindmap ==
  \E t \in MindmapTrees, d \in 1..MaxDepthOption : RenderMindmap(t, d)

SpecMindmap == Init /\ [][NextMindmap]_vars

(* -------------------- the flowchart rendering ------------------------- *)
(* str.isalnum() for one character: the ASCII letters and digits.          *)
AlnumChars ==
  {"A", "B", "C", "D", "E", "F", "G", "H", "I", "J", "K", "L", "M",
   "N", "O", "P", "Q", "R", "S", "T", "U", "V", "W", "X", "Y", "Z",
   "a", "b", "c", "d", "e", "f", "g", "h", "i", "j", "k", "l", "m",
   "n", "o", "p", "q", "r", "s", "t", "u", "v", "w", "x", "y", "z",
   "0", "1", "2", "3", "4", "5", "6", "7", "8", "9"}

isalnum(ch) == ch \in AlnumChars

(* Variant of Sanitize: the hyphen is kept as well.                        *)
SanitizeKeepsHyphen(text) ==
  SelectSeq(text, LAMBDA ch : isalnum(ch) \/ ch = "_" \/ ch = "-")

(* "".join(ch for ch in text if ch.isalnum() or ch == "_")                 *)
Sanitize(text) == SelectSeq(text, LAMBDA ch : isalnum(ch) \/ ch = "_")

(* label.replace('"', '&quot;')                                            *)
RECURSIVE EscapeQuotes(_)
EscapeQuotes(text) ==
  IF Len(text) = 0 THEN text
  ELSE (IF text[1] = "\"" THEN <<"&", "q", "u", "o", "t", ";">> ELSE <<text[1]>>)
         \o EscapeQuotes(Tail(text))

(* Variant of node_shapes: the default shape has round brackets.           *)
node_shapes_round(shape_key) ==
  CASE shape_key = "start" -> <<<<"(", "[">>, <<"]", ")">>>>
    [] OTHER -> <<<<"(">>, <<")">>>>

(* node_shapes.get(shape_key, node_shapes["default"])                      *)
node_shapes(shape_key) ==
  CASE shape_key = "start" -> <<<<"(", "[">>, <<"]", ")">>>>
    [] shape_key = "end" -> <<<<"(", "(">>, <<")", ")">>>>
    [] shape_key = "decision" -> <<<<"{">>, <<"}">>>>
    [] shape_key = "inputoutput" -> <<<<"[", "/">>, <<"/", "]">>>>
    [] OTHER -> <<<<"[">>, <<"]">>>>

FlowchartKeyword ==
  <<"f", "l", "o", "w", "c", "h", "a", "r", "t">>

FallbackLines ==
  <<
    <<"A", "(", "[", "\"", "U", "n", "a", "b", "l", "e", " ", "t", "o",
      " ", "b", "u", "i", "l", "d", " ", "d", "i", "a", "g", "r", "a",
      "m", "\"", "]", ")">>,
    <<"A", " ", "-", "-", ">", " ", "B", "(", "(", "\"", "P", "l", "e",
      "a", "s", "e", " ", "r", "e", "f", "i", "n", "e", " ", "y", "o",
      "u", "r", " ", "q", "u", "e", "s", "t", "i", "o", "n", "\"", ")",
      ")">>
  >>

(* The line of a node, or no text for a node that is skipped.              *)
NodeLine(node) ==
  LET node_id == Strip(node.id)
      label == Strip(node.label)
      shape_key == Lower(node.shape)
      safe_id == Sanitize(node_id)
      safe_label == IF EscapeQuotes(label) = <<>> THEN safe_id
                    ELSE EscapeQuotes(label)
      shape == node_shapes(shape_key)
  IN IF node_id = <<>> \/ safe_id = <<>> THEN <<>>
     ELSE safe_id \o shape[1] \o <<"\"">> \o safe_label \o <<"\"">> \o shape[2]

(* The line of an edge, or no text for an edge that is skipped.            *)
EdgeLine(edge) ==
  LET src == Strip(edge.from)
      dst == Strip(edge.to)
      safe_src == Sanitize(src)
      safe_dst == Sanitize(dst)
      label == Strip(edge.label)
  IN IF src = <<>> \/ dst = <<>> \/ safe_src = <<>> \/ safe_dst = <<>> THEN <<>>
     ELSE IF label # <<>>
       THEN safe_src \o <<" ", "-", "-", ">", "|", "\"">> \o EscapeQuotes(label)
              \o <<"\"", "|", " ">> \o safe_dst
     ELSE safe_src \o <<" ", "-", "-", ">", " ">> \o safe_dst

(* FlowchartStrategy._json_to_mermaid: the declaration line, a line for    *)
(* each node and each edge that is not skipped, the two fallback lines     *)
(* when there is none, joined by newlines.                                 *)
json_to_mermaid(diagram) ==
  LET header == FlowchartKeyword \o <<" ">> \o diagram.direction
      node_lines == [i \in 1..Len(diagram.nodes) |-> NodeLine(diagram.nodes[i])]
      edge_lines == [i \in 1..Len(diagram.edges) |-> EdgeLine(diagram.edges[i])]
      lines == <<header>>
                 \o SelectSeq(node_lines, LAMBDA l : l # <<>>)
                 \o SelectSeq(edge_lines, LAMBDA l : l # <<>>)
  IN Join(IF Len(lines) = 1 THEN lines \o FallbackLines ELSE lines)

(* FlowchartStrategy.validate_content.                                     *)
flowchart_validate_content(content) ==
  /\ Len(content) > 0
  /\ Len(Strip(content)) >= 10
  /\ Len(Strip(content)) >= Len(FlowchartKeyword)
  /\ SubSeq(Strip(content), 1, Len(FlowchartKeyword)) = FlowchartKeyword
  /\ Len(content) <= 50000

(* FlowchartStrategy.generate from the decoded diagram to the end of its   *)
(* try block: the rendering, and the result or the ValueError raised.      *)
FlowchartRender(diagram_data) ==
  LET mermaid_code == json_to_mermaid(diagram_data) IN
    [mermaid_code |-> mermaid_code,
     result |->
       IF ~flowchart_validate_content(mermaid_code)
         THEN Raise("ValueError",
                    "Generated Mermaid flowchart content is invalid.", 0)
         ELSE Result("flowchart", mermaid_code, EmptyMetadata)]

MaxNodes == 2
MaxEdges == 1

(* The sequences of at most n elements of S.                               *)
SeqsUpTo(S, n) == UNION {[1..k -> S] : k \in 0..n}

(* Ids as a provider may write them: "A-1!", "!" and " B_2 ".              *)
FlowIds == {<<"A", "-", "1", "!">>, <<"!">>, <<" ", "B", "_", "2", " ">>}

(* The diagrams rendered: a key the provider left out has the default of   *)
(* its dict.get.                                                           *)
Diagrams ==
  [direction : {<<"T", "D">>},
   nodes : SeqsUpTo([id : FlowIds, label : {<<"g", "o">>},
                     shape : {"default"}], MaxNodes),
   edges : SeqsUpTo([from : FlowIds, to : FlowIds,
                     label : {<<>>, <<"x">>}], MaxEdges)]

(* One rendering of a diagram the provider returned.                       *)
RenderFlowchart(d) ==
  /\ call = NoCall
  /\ call' = [fn |-> "flowchart", diagram |-> d]
  /\ ret' = FlowchartRender(d)
  /\ UNCHANGED jobVars

NextFlowchart == \E d \in Diagrams : RenderFlowchart(d)

SpecFlowchart == Init /\ [][NextFlowchart]_vars

(* ------------- flowchart jobs on single-node diagrams ----------------- *)
(* The diagrams of one node and no edge a provider returns in a ```json    *)
(* block.                                                                  *)
SingleNodeDiagrams ==
  [direction : {<<"T", "D">>, <<"L", "R">>},
   nodes : [1..1 -> [id : {<<"A", "1">>, <<"A", "-", "1", "!">>},
                     label : {<<"g", "o">>, <<>>, <<"a", "\"", "b">>},
                     shape : {"default", "process", "start"}]],
   edges : {<<>>}]

(* The provider call of job j answers with a ```json block holding diagram *)
(* d: the flowchart strategy renders it, and the task runs on.             *)
DiagramReturns(j, d) ==
  /\ pc[j] = "awaiting"
  /\ create_strategy(taskType[j]).name = "flowchart"
  /\ TaskResumes(j, Reraise(taskType[j],
                            FlowchartExcept(FlowchartRender(d).result)), d)

NextSingleNode ==
  \/ Visualize("flowchart")
  \/ \E j \in JobIds : RunAttempt(j)
  \/ \E j \in JobIds, d \in SingleNodeDiagrams : DiagramReturns(j, d)

SpecSingleNode == Init /\ [][NextSingleNode]_vars

(* ------------------------------ claims -------------------------------- *)
(* This step handles GET /visualize/{j}.                                   *)
PollStep(j) == requests' # requests /\ req'.op = "get" /\ req'.job_id = j

(* This step handles POST /visualize with visualization_type t.            *)
VisualizeStep(t) ==
  requests' # requests /\ req'.op = "visualize" /\ req'.visualization_type = t

(* This step is the end of a provider call of job j.                       *)
ReturnStep(j) == pc[j] = "awaiting" /\ pc'[j] # "awaiting"

(* C1: when the provider call of an attempt ends in overload (503) or rate *)
(* limiting (429) and fewer than 3 attempts have been made, the job is not *)
(* failed: it becomes pending with a transient error message and its task  *)
(* goes to the backoff sleep, from which it runs the next attempt.         *)
C1_TransientFailureIsRetried ==
  [][\A j \in JobIds :
       (ReturnStep(j) /\ lastOutcome'[j] \in TransientOutcomes /\ attempt[j] < 3)
         => /\ objects'[j].status = PENDING
            /\ objects'[j].error # None
            /\ pc'[j] = "sleeping"]_vars

(* C2: generate is invoked at most 3 times for a job, and the attempts     *)
(* field of a job never exceeds 3.                                         *)
C2_AtMostThreeAttempts ==
  \A j \in JobIds :
    /\ calls[j] <= 3
    /\ j \in issued => objects[j].attempts <= 3

(* A job whose provider call failed with 503 or 429 has run its loop to    *)
(* the end.                                                                *)
C2_Witness ==
  \E j \in issued :
    /\ pc[j] = "done"
    /\ lastOutcome[j] \in TransientOutcomes
    /\ calls[j] >= 1
    /\ objects[j].attempts = calls[j]

(* C3: once a job is succeeded or failed, no step changes its status, and  *)
(* every poll that finds the job returns that status.                      *)
C3_TerminalStatusIsFinal ==
  [][\A j \in issued :
       objects[j].status \in Terminal
         => /\ objects'[j].status = objects[j].status
            /\ (PollStep(j) /\ resp'.code = 200)
                 => resp'.status = objects[j].status]_vars

(* Two polls have found the same failed job.                               *)
C3_Witness ==
  \E j \in issued :
    /\ Len(seen[j]) >= 2
    /\ seen[j][1].status = FAILED
    /\ seen[j][2].status = FAILED
    /\ pc[j] = "done"

(* C4: a visualize request whose type is in the supported set is answered  *)
(* with status pending and an id that was not issued before; when it       *)
(* returns, the store holds one record under that id, pending, with        *)
(* attempts 0 and expires_at = creation time + TTL, and no generation      *)
(* attempt has been started for it.                                        *)
C4_CreateStoresPendingJob ==
  [][\A t \in RequestTypes :
       (VisualizeStep(t) /\ t \in get_supported_types)
         => \E j \in JobIds :
              /\ j \notin issued /\ issued' = issued \cup {j}
              /\ j \notin jobs /\ jobs' = jobs \cup {j}
              /\ resp' = Response("visualize", 200, j, PENDING,
                                  None, None, EmptyMetadata, None)
              /\ objects'[j].id = j
              /\ objects'[j].status = PENDING
              /\ objects'[j].attempts = 0
              /\ objects'[j].created_at = now
              /\ objects'[j].expires_at = now + JOB_TTL_SECONDS
              /\ pc'[j] = "created" /\ calls'[j] = 0 /\ attempt'[j] = 0
              /\ \A k \in issued : objects'[k] = objects[k]]_vars

(* A second job has just been created, while the first one is in its       *)
(* provider call.                                                          *)
C4_Witness ==
  \E j, k \in issued :
    /\ j # k
    /\ pc[k] = "awaiting"
    /\ req.op = "visualize" /\ req.visualization_type \in get_supported_types
    /\ resp.code = 200 /\ resp.job_id = j /\ resp.status = PENDING
    /\ pc[j] = "created" /\ j \in jobs
    /\ objects[j].created_at > objects[k].created_at

(* C5 as stated: a visualize request whose type is not in the supported    *)
(* set is rejected and creates no record and no task.                      *)
C5_UnsupportedTypeRejected ==
  [][\A t \in RequestTypes :
       (VisualizeStep(t) /\ t \notin get_supported_types)
         => /\ resp'.code = 400
            /\ UNCHANGED <<objects, jobs, pc, taskType, calls>>]_vars

(* C5, amended: a visualize request whose type, in lower case, is not in   *)
(* the supported set is rejected and creates no record and no task.        *)
C5_UnsupportedLowerCaseTypeRejected ==
  [][\A t \in RequestTypes :
       (VisualizeStep(t) /\ Lower(t) \notin get_supported_types)
         => /\ resp'.code = 400
            /\ UNCHANGED <<objects, jobs, pc, taskType, calls>>]_vars

(* An unsupported type has been rejected while the store held a job.       *)
C5_Witness ==
  /\ req.op = "visualize"
  /\ Lower(req.visualization_type) \notin get_supported_types
  /\ resp.code = 400
  /\ jobs # {}

(* C6: a poll of a job whose expires_at has passed, or of an id a poll has *)
(* already removed as expired, returns not-found and leaves no record      *)
(* under the id, whatever the job's status and the state of its task.      *)
C6_ExpiredPollsNotFound ==
  [][\A j \in JobIds :
       (PollStep(j) /\ (j \in purged \/ (j \in jobs /\ objects[j].expires_at < now)))
         => resp'.code = 404 /\ j \notin jobs']_vars

(* An id removed as expired while its provider call was running has been   *)
(* polled again after the call ended, and not found.                       *)
C6_Witness ==
  \E j \in latePolls :
    /\ req.job_id = j /\ resp.code = 404
    /\ objects[j].status \in Terminal
    /\ j \notin jobs

(* C7: once a poll has removed an expired job, the store never holds a     *)
(* record under that id again.                                             *)
C7_PurgedNotStoredAgain == \A j \in purged : j \notin jobs

(* C8: a poll changes no field of any job and removes no record it returns *)
(* and all polls answered for a job in a terminal status carry the same    *)
(* content, metadata and error.                                            *)
C8_PollingIsIdempotent ==
  /\ [][\A j \in JobIds :
          PollStep(j) => /\ objects' = objects
                         /\ resp'.code = 200 => jobs' = jobs]_vars
  /\ [](\A j \in JobIds : \A i, k \in 1..Len(seen[j]) :
          /\ seen[j][i].content = seen[j][k].content
          /\ seen[j][i].metadata = seen[j][k].metadata
          /\ seen[j][i].error = seen[j][k].error)

(* Two polls have been answered for the same succeeded job.                *)
C8_Witness ==
  \E j \in issued :
    /\ Len(seen[j]) >= 2
    /\ seen[j][1].status = SUCCEEDED
    /\ seen[j][1].content # None

(* C9: a job has content exactly when it is succeeded; content is written  *)
(* once, and content and metadata are written only in the step that makes  *)
(* the job succeeded.                                                      *)
C9_ContentIffSucceeded ==
  /\ [](\A j \in issued :
          objects[j].content # None <=> objects[j].status = SUCCEEDED)
  /\ [][\A j \in issued :
          /\ objects'[j].content # objects[j].content
               => /\ objects[j].content = None
                  /\ objects[j].status # SUCCEEDED
                  /\ objects'[j].status = SUCCEEDED
          /\ objects'[j].metadata # objects[j].metadata
               => /\ objects[j].status # SUCCEEDED
                  /\ objects'[j].status = SUCCEEDED]_vars

(* A job has succeeded with content and metadata, another has failed.      *)
C9_Witness ==
  \E j, k \in issued :
    /\ objects[j].status = SUCCEEDED
    /\ objects[j].content # None
    /\ objects[j].metadata # EmptyMetadata
    /\ objects[k].status = FAILED

(* The job is between a recorded retryable failure and the outcome of the  *)
(* retry.                                                                  *)
MidRetry(j) == pc[j] = "sleeping" \/ (pc[j] = "awaiting" /\ attempt[j] >= 2)

(* C10: a job has an error exactly when it is failed or in the middle of a *)
(* retry; a succeeded job has none.                                        *)
C10_ErrorIffFailedOrRetrying ==
  \A j \in issued :
    /\ objects[j].error # None <=> (objects[j].status = FAILED \/ MidRetry(j))
    /\ objects[j].status = SUCCEEDED => objects[j].error = None

(* One job has failed with a message and another has succeeded.            *)
C10_Witness ==
  \E j, k \in issued :
    /\ objects[j].status = FAILED /\ objects[j].error # None
    /\ objects[k].status = SUCCEEDED /\ objects[k].error = None

(* The provider call of job j ended with o, which is neither overload nor  *)
(* rate limiting, and generate_visualization raised.                       *)
NonTransientFailure(j, o) ==
  /\ o \notin TransientOutcomes
  /\ generate_visualization(taskType[j], o).kind # "result"

(* C11: when the provider call of an attempt ends in a validation error or *)
(* any other failure that is not overload or rate limiting, that same step *)
(* makes the job failed with a message and ends the task; and no further   *)
(* call of generate_visualization is started for a job so failed, however  *)
(* many attempts remain.                                                   *)
C11_NonTransientFailureIsFinal ==
  /\ [][\A j \in JobIds :
          (ReturnStep(j) /\ NonTransientFailure(j, lastOutcome'[j]))
            => /\ objects'[j].status = FAILED
               /\ objects'[j].error # None
               /\ pc'[j] = "done"]_vars
  /\ [][\A j \in issued :
          (objects[j].status = FAILED /\ lastOutcome[j] \notin TransientOutcomes)
            => calls'[j] = calls[j]]_vars

(* A job failed in its first attempt on undecodable JSON, its task has     *)
(* ended, and a poll has found it failed since.                            *)
C11_Witness ==
  \E j \in issued :
    /\ lastOutcome[j] = "bad_json"
    /\ objects[j].status = FAILED /\ objects[j].error # None
    /\ objects[j].attempts = 1 /\ objects[j].attempts < max_attempts
    /\ calls[j] = 1 /\ pc[j] = "done"
    /\ Len(seen[j]) >= 1

(* strategy.generate of the strategy create_strategy returns for the type  *)
(* of a job.                                                               *)
StrategyGenerate(visualization_type, o) ==
  IF create_strategy(visualization_type).name = "flowchart"
    THEN FlowchartGenerate(o)
    ELSE MindmapGenerate(o)

(* The provider's answer holds no structured block that can be parsed, or  *)
(* the rendering fails validate_content.                                   *)
ValidationOutcomes == {"no_json", "bad_json", "bad_render"}

(* The provider call itself failed.                                        *)
TransportOutcomes == {"server_503", "server_429", "server_500", "other_error"}

(* C12: a strategy's generate raises ValueError when no structured block   *)
(* can be parsed from the provider's answer or the rendering fails         *)
(* validate_content, and RuntimeError when the provider call itself fails. *)
C12_ErrorKindsNotConfused ==
  [][\A j \in JobIds :
       ReturnStep(j)
         => LET o == lastOutcome'[j]
                r == StrategyGenerate(taskType[j], o)
            IN /\ o \in ValidationOutcomes => r.kind = "ValueError"
               /\ o \in TransportOutcomes => r.kind = "RuntimeError"]_vars

(* This step is a call of create_strategy with type name n.                *)
CreateStep(n) ==
  call' # call /\ call'.fn = "create_strategy" /\ call'.type_name = n

(* C13 as stated: create_strategy raises and constructs nothing for every  *)
(* name that is not an element of get_supported_types, and returns a       *)
(* strategy for every name that is.                                        *)
C13_NameNotListedRaises ==
  [][\A n \in FactoryNames :
       CreateStep(n)
         => IF n \notin get_supported_types
              THEN ret'.value.kind = "ValueError" /\ ret'.constructed = Constructed
              ELSE ret'.value.kind = "strategy"]_vars

(* C13, amended: create_strategy raises and constructs nothing for every   *)
(* name whose lower case is not an element of get_supported_types, and     *)
(* returns a newly constructed strategy for every name whose lower case    *)
(* is.                                                                     *)
C13_LowerCaseNameNotListedRaises ==
  [][\A n \in FactoryNames :
       CreateStep(n)
         => IF Lower(n) \notin get_supported_types
              THEN ret'.value.kind = "ValueError" /\ ret'.constructed = Constructed
              ELSE /\ ret'.value.kind = "strategy"
                   /\ ret'.value.name = Lower(n)
                   /\ ret'.constructed = Constructed + 1]_vars

(* After a call that raised, create_strategy("Mindmap") has returned the   *)
(* first strategy constructed.                                             *)
C13_Witness ==
  /\ call.fn = "create_strategy" /\ call.type_name = "Mindmap"
  /\ call.nth = 2
  /\ ret.value.kind = "strategy" /\ ret.constructed = 1

(* C14: whatever the interleaving of polls with the steps of a job's task, *)
(* no poll returns a half-written job: succeeded comes with content,       *)
(* failed comes with an error, and running is returned only for a job      *)
(* whose attempts field is at least 1.                                     *)
C14_PollSeesNoPartialState ==
  [][\A j \in JobIds :
       (PollStep(j) /\ resp'.code = 200)
         => /\ resp'.status = SUCCEEDED => resp'.content # None
            /\ resp'.status = FAILED => resp'.error # None
            /\ resp'.status = RUNNING => objects[j].attempts >= 1]_vars

(* A poll has found a job running during its provider call, after the task *)
(* of another job has failed that one.                                     *)
C14_Witness ==
  \E j, k \in issued :
    /\ j # k
    /\ req.op = "get" /\ req.job_id = j
    /\ resp.code = 200 /\ resp.status = RUNNING
    /\ pc[j] = "awaiting" /\ objects[j].attempts = 1
    /\ pc[k] = "done" /\ objects[k].status = FAILED

(* The nodes of a tree, each as the pair of its depth (the root has depth  *)
(* 0) and its title.                                                       *)
RECURSIVE NodesOf(_, _)
NodesOf(node, depth) ==
  {<<depth, node.title>>}
    \cup UNION {NodesOf(node.children[i], depth + 1) :
                  i \in 1..Len(node.children)}

(* The headings of a rendering, each as the pair of its level (the number  *)
(* of "#") and its title (what follows "# ").                              *)
HeadingsOf(content) ==
  LET ls == Lines(content) IN
    [i \in 1..Len(ls) |->
       <<LeadingHashes(ls[i]),
         SubSeq(ls[i], LeadingHashes(ls[i]) + 2, Len(ls[i]))>>]

(* C15: the rendering of a tree with max_depth d >= 1 has no heading of a  *)
(* level above d and has one heading, of level depth + 1, for each node of *)
(* depth < d and no other line; the metadata of a result give the node     *)
(* count and the depth of the whole tree, and d as requested_max_depth.    *)
C15_DepthPruning ==
  call.fn = "mindmap"
    => LET nodes == NodesOf(call.tree, 0)
           d == call.max_depth
           hs == HeadingsOf(ret.markdown_content)
       IN /\ \A i \in 1..Len(hs) : hs[i][1] >= 1 /\ hs[i][1] <= d
          /\ {hs[i] : i \in 1..Len(hs)}
               = {<<n[1] + 1, n[2]>> : n \in {x \in nodes : x[1] < d}}
          /\ Len(hs) = Cardinality({x \in nodes : x[1] < d})
          /\ ret.result.kind = "result"
               => ret.result.metadata =
                    {<<"total_nodes", Cardinality(nodes)>>,
                     <<"actual_depth",
                       CHOOSE k \in 1..Cardinality(nodes) :
                         /\ \E x \in nodes : x[1] + 1 = k
                         /\ \A x \in nodes : x[1] + 1 <= k>>,
                     <<"requested_max_depth", d>>}

(* A chain of six nodes has been rendered with max_depth 3: three          *)
(* headings, and actual_depth 6 in the metadata.                           *)
C15_Witness ==
  /\ call.fn = "mindmap" /\ call.max_depth = 3
  /\ ret.result.kind = "result"
  /\ <<"actual_depth", 6>> \in ret.result.metadata
  /\ <<"total_nodes", 6>> \in ret.result.metadata
  /\ Len(HeadingsOf(ret.markdown_content)) = 3

(* The characters a sanitized id is made of.                               *)
IsIdChar(ch) == ch \in AlnumChars \/ ch = "_"

(* The id a line starts with: its characters up to the first that is not   *)
(* an id character.  The id a line ends with: those after its last blank.  *)
RECURSIVE FirstId(_)
FirstId(line) ==
  IF Len(line) > 0 /\ IsIdChar(line[1])
    THEN <<line[1]>> \o FirstId(Tail(line))
    ELSE <<>>

RECURSIVE LastWord(_)
LastWord(line) ==
  IF Len(line) = 0 \/ line[Len(line)] = " " THEN <<>>
  ELSE LastWord(SubSeq(line, 1, Len(line) - 1)) \o <<line[Len(line)]>>

(* The id characters of a text, in order.                                  *)
IdCharsOf(text) == SelectSeq(text, IsIdChar)

(* C16: the rendering has, after its declaration line, one line for each   *)
(* node whose id keeps some alphanumeric or underscore character, starting *)
(* with exactly those characters of the id in order, then one line for     *)
(* each edge both of whose ends keep such a character, starting with those *)
(* of the source and ending with those of the target; nodes and edges of   *)
(* which an id keeps none have no line, and no line carries an empty id.   *)
(* Without any node or edge line the rendering is the fallback diagram.    *)
C16_IdsSanitized ==
  call.fn = "flowchart"
    => LET d == call.diagram
           ls == Lines(ret.mermaid_code)
           ns == SelectSeq(d.nodes, LAMBDA n : IdCharsOf(n.id) # <<>>)
           es == SelectSeq(d.edges, LAMBDA e : IdCharsOf(e.from) # <<>>
                                                /\ IdCharsOf(e.to) # <<>>)
       IN IF Len(ns) + Len(es) = 0
            THEN ls = <<ls[1]>> \o FallbackLines
            ELSE /\ Len(ls) = 1 + Len(ns) + Len(es)
                 /\ \A i \in 1..Len(ns) :
                      /\ FirstId(ls[1 + i]) = IdCharsOf(ns[i].id)
                      /\ ls[1 + i][Len(FirstId(ls[1 + i])) + 1] \in {"[", "("}
                 /\ \A i \in 1..Len(es) :
                      /\ FirstId(ls[1 + Len(ns) + i]) = IdCharsOf(es[i].from)
                      /\ LastWord(ls[1 + Len(ns) + i]) = IdCharsOf(es[i].to)
                 /\ \A i \in 2..Len(ls) : FirstId(ls[i]) # <<>>

(* A diagram with the nodes "A-1!" and "!" and an edge from "A-1!" to "!"  *)
(* has been rendered: the only line after the declaration is that of node  *)
(* A1.                                                                     *)
C16_Witness ==
  /\ call.fn = "flowchart"
  /\ Len(call.diagram.nodes) = 2 /\ Len(call.diagram.edges) = 1
  /\ call.diagram.nodes[1].id = <<"A", "-", "1", "!">>
  /\ call.diagram.nodes[2].id = <<"!">>
  /\ call.diagram.edges[1].from = <<"A", "-", "1", "!">>
  /\ call.diagram.edges[1].to = <<"!">>
  /\ Len(Lines(ret.mermaid_code)) = 2
  /\ FirstId(Lines(ret.mermaid_code)[2]) = <<"A", "1">>

(* The task of job j has ended after the provider answered with a diagram. *)
Rendered(j) == pc[j] = "done" /\ calls[j] >= 1

(* "flowchart TD", a newline, and <id>["<label>"].                         *)
PlainContent(node) ==
  FlowchartKeyword \o <<" ", "T", "D", "\n">> \o node.id
    \o <<"[", "\"">> \o node.label \o <<"\"", "]">>

(* The node has the process shape or none, an id of alphanumeric or        *)
(* underscore characters, and a label that is not empty and holds no       *)
(* double quote; the diagram has direction TD or none.                     *)
PlainDiagram(d) ==
  /\ d.direction = <<"T", "D">>
  /\ d.nodes[1].shape \in {"default", "process"}
  /\ d.nodes[1].id # <<>> /\ IdCharsOf(d.nodes[1].id) = d.nodes[1].id
  /\ d.nodes[1].label # <<>>
  /\ \A i \in 1..Len(d.nodes[1].label) :
       d.nodes[1].label[i] \notin {"\"", " ", "\n"}

C18_BackoffDelayDoubles ==
  [][\A j \in JobIds :
       (ReturnStep(j) /\ lastOutcome'[j] \in TransientOutcomes
          /\ attempt[j] < max_attempts)
         => /\ pc'[j] = "sleeping"
            /\ delay'[j] = (IF attempt[j] = 1 THEN 15 ELSE 30)
            /\ delay'[j] > delay[j]]_vars

(* C19: a job whose task ended with the job failed carries the overload    *)
(* message when its last attempt (and so every attempt) hit 503, the       *)
(* rate-limit message when it hit 429, and another, non-empty message      *)
(* otherwise.                                                              *)
C19_FailureMessageByCause ==
  \A j \in issued :
    (pc[j] = "done" /\ objects[j].status = FAILED)
      => CASE lastOutcome[j] = "server_503" -> objects[j].error = OverloadMessage
           [] lastOutcome[j] = "server_429" -> objects[j].error = RateLimitMessage
           [] OTHER -> objects[j].error \notin {None, OverloadMessage,
                                                RateLimitMessage}

(* C20: a job starts pending, and every change of its status is one of     *)
(* pending to running, running to succeeded, running to failed and running *)
(* to pending, the last only on a 503 or 429 answer with fewer than 3      *)
(* attempts made.                                                          *)
C20_StatusTransitions ==
  [][/\ \A j \in issued' \ issued : objects'[j].status = PENDING
     /\ \A j \in issued :
          objects'[j].status # objects[j].status
            => /\ <<objects[j].status, objects'[j].status>>
                    \in {<<PENDING, RUNNING>>, <<RUNNING, SUCCEEDED>>,
                         <<RUNNING, FAILED>>, <<RUNNING, PENDING>>}
               /\ objects'[j].status = PENDING
                    => /\ lastOutcome'[j] \in TransientOutcomes
                       /\ objects'[j].attempts < 3]_vars

(* One job has succeeded and one has failed, each in its first attempt,    *)
(* while a third request found the failed one.                             *)
C20_Witness ==
  \E j, k \in issued :
    /\ objects[j].status = SUCCEEDED /\ objects[j].attempts = 1
    /\ objects[k].status = FAILED /\ objects[k].attempts = 1
    /\ lastOutcome[k] = "server_503"
    /\ req.op = "get" /\ req.job_id = k /\ resp.status = FAILED

(* C21: the attempts field of a job never decreases, grows by exactly 1 in *)
(* each step that marks the job running, changes in no other step, and at  *)
(* every moment equals the number of generate_visualization calls started  *)
(* for the job.                                                            *)
C21_AttemptsCountCalls ==
  /\ [](\A j \in issued : objects[j].attempts = calls[j])
  /\ [][\A j \in issued :
          /\ objects'[j].attempts >= objects[j].attempts
          /\ (pc[j] # "awaiting" /\ pc'[j] = "awaiting")
               => /\ objects'[j].status = RUNNING
                  /\ objects'[j].attempts = objects[j].attempts + 1
          /\ objects'[j].attempts # objects[j].attempts
               => pc[j] # "awaiting" /\ pc'[j] = "awaiting"]_vars

(* One job is in the provider call of its first attempt, another has been  *)
(* created and not been started.                                           *)
C21_Witness ==
  \E j, k \in issued :
    /\ pc[j] = "awaiting" /\ objects[j].status = RUNNING
    /\ objects[j].attempts = 1 /\ calls[j] = 1
    /\ pc[k] = "created" /\ objects[k].attempts = 0 /\ calls[k] = 0

(* C22: no step of a task and no poll changes the id, the type,            *)
(* created_at or expires_at of a job: they stay as visualize set them,     *)
(* with expires_at = created_at + TTL.                                     *)
C22_CreationFieldsFixed ==
  /\ [][\A j \in issued :
          /\ objects'[j].id = objects[j].id
          /\ objects'[j].visualization_type = objects[j].visualization_type
          /\ objects'[j].created_at = objects[j].created_at
          /\ objects'[j].expires_at = objects[j].expires_at]_vars
  /\ [](\A j \in issued :
          /\ objects[j].id = j
          /\ objects[j].visualization_type = Lower(taskType[j])
          /\ objects[j].expires_at = objects[j].created_at + JOB_TTL_SECONDS)

(* A job created at time 0 has run to the end and has been polled at a     *)
(* later time.                                                             *)
C22_Witness ==
  \E j \in issued :
    /\ pc[j] = "done" /\ objects[j].status = SUCCEEDED
    /\ Len(seen[j]) >= 1
    /\ objects[j].created_at = 0 /\ now > objects[j].created_at
    /\ objects[j].visualization_type = "mindmap"

(* C23: when no node of the diagram keeps an alphanumeric or underscore    *)
(* character in its id, so that the rendering has no node line, the        *)
(* rendering is the declaration line followed by the two fallback lines,   *)
(* whether or not the diagram has edges whose ends keep such characters.   *)
C23_FallbackWithoutNodeLine ==
  call.fn = "flowchart"
    => LET d == call.diagram
           ls == Lines(ret.mermaid_code)
           ns == SelectSeq(d.nodes, LAMBDA n : IdCharsOf(n.id) # <<>>)
       IN Len(ns) = 0 => ls = <<ls[1]>> \o FallbackLines

(* The lesser of two numbers.                                              *)
Min(a, b) == IF a <= b THEN a ELSE b

(* C24: in the rendering of a tree with max_depth d, each node of depth    *)
(* k < d has a heading of level min(k + 1, 6), and no heading has more     *)
(* than 6 "#", whatever d is.                                              *)
C24_HeadingLevelCapped ==
  call.fn = "mindmap"
    => LET nodes == NodesOf(call.tree, 0)
           d == call.max_depth
           hs == HeadingsOf(ret.markdown_content)
       IN /\ \A i \in 1..Len(hs) : hs[i][1] <= 6
          /\ {hs[i] : i \in 1..Len(hs)}
               = {<<Min(n[1] + 1, 6), n[2]>> :
                    n \in {x \in nodes : x[1] < d}}

(* C25: for both strategies, an attempt whose provider answer has no       *)
(* fenced block but is itself the structured format, with a rendering that *)
(* is valid, succeeds with content; an attempt whose answer has neither    *)
(* fails.                                                                  *)
C25_WholeResponseParsed ==
  [][\A j \in JobIds :
       /\ (ReturnStep(j) /\ lastOutcome'[j] = "raw_ok")
            => /\ StrategyGenerate(taskType[j], "raw_ok").kind = "result"
               /\ objects'[j].status = SUCCEEDED
               /\ objects'[j].content # None
       /\ (ReturnStep(j) /\ lastOutcome'[j] = "no_json")
            => /\ StrategyGenerate(taskType[j], "no_json").kind # "result"
               /\ objects'[j].status = FAILED]_vars

(* C26: a task that starts when _jobs holds no record of its job ends in   *)
(* that step, calls generate_visualization neither then nor later, and     *)
(* writes nothing: _jobs and the job object stay as they were.             *)
C26_NoRecordNoWork ==
  /\ [][\A j \in JobIds :
          (pc[j] = "created" /\ j \notin jobs /\ pc'[j] # "created")
            => /\ pc'[j] = "done"
               /\ calls' = calls /\ attempt' = attempt
               /\ jobs' = jobs /\ objects' = objects]_vars
  /\ [](\A j \in issued :
          (pc[j] = "done" /\ calls[j] = 0)
            => j \notin jobs /\ objects[j].status = PENDING)

(* The record of a job was removed by a poll after its expiry before its   *)
(* task started, and the task has ended without a call.                    *)
C26_Witness ==
  \E j \in issued :
    /\ pc[j] = "done" /\ calls[j] = 0 /\ attempt[j] = 0
    /\ j \in purged /\ j \notin jobs
    /\ objects[j].status = PENDING /\ objects[j].attempts = 0

(* C27: a poll of an issued job whose expires_at is not before the present *)
(* time is answered 200 with the status, type, content, metadata and error *)
(* the job has at that moment; and a record leaves _jobs only in a poll of *)
(* that job that finds it expired and answers 404.                         *)
C27_UnexpiredJobIsFound ==
  [][\A j \in JobIds :
       /\ (j \in issued /\ PollStep(j) /\ objects[j].expires_at >= now)
            => /\ j \in jobs
               /\ resp'.code = 200 /\ resp'.job_id = j
               /\ resp'.status = objects[j].status
               /\ resp'.visualization_type = objects[j].visualization_type
               /\ resp'.content = objects[j].content
               /\ resp'.metadata = objects[j].metadata
               /\ resp'.error = objects[j].error
       /\ (j \in jobs /\ j \notin jobs')
            => /\ PollStep(j) /\ resp'.code = 404
               /\ objects[j].expires_at < now]_vars

(* A succeeded job has been polled exactly at its expiry time and was      *)
(* returned with its content.                                              *)
C27_Witness ==
  \E j \in issued :
    /\ req.op = "get" /\ req.job_id = j /\ resp.code = 200
    /\ resp.status = SUCCEEDED /\ resp.content # None
    /\ now = objects[j].expires_at /\ now > objects[j].created_at
    /\ j \in jobs /\ j \notin purged

RemovedBeforeStart(j) ==
  /\ j \in issued /\ j \in purged /\ j \notin jobs
  /\ pc[j] = "done" /\ calls[j] = 0 /\ objects[j].status = PENDING

WrappedKinds == {"result", "ValueError", "RuntimeError"}

(* C29: whatever the provider answers, a 503 or 429 ServerError included,  *)
(* the strategy's generate and then generate_visualization return a result *)
(* or raise ValueError or RuntimeError; the job of a failed call is failed *)
(* in that step with the message of that exception, which is the message   *)
(* of "except (ValueError, RuntimeError)" and none of the messages of the  *)
(* ServerError and catch-all handlers.                                     *)
C29_LoopSeesOnlyWrappedErrors ==
  [][\A j \in JobIds :
       ReturnStep(j)
         => LET o == lastOutcome'[j]
                s == StrategyGenerate(taskType[j], o)
                r == generate_visualization(taskType[j], o)
            IN /\ s.kind \in WrappedKinds
               /\ r.kind \in WrappedKinds
               /\ o \in TransientOutcomes => r.kind = "RuntimeError"
               /\ r.kind # "result"
                    => /\ objects'[j].status = FAILED
                       /\ objects'[j].error = r.msg
                       /\ objects'[j].error
                            \notin {OverloadMessage, RateLimitMessage,
                                    "Unexpected error: " \o r.msg}
                       /\ pc'[j] = "done"]_vars

(* A flowchart job whose provider call raised a 503 ServerError is failed  *)
(* with the message of the RuntimeError that wraps it.                     *)
C29_Witness ==
  \E j \in issued :
    /\ pc[j] = "done" /\ lastOutcome[j] = "server_503"
    /\ taskType[j] = "flowchart"
    /\ objects[j].status = FAILED
    /\ objects[j].error =
         "Failed to generate visualization of type 'flowchart': "
           \o "Flowchart generation failed: 503 UNAVAILABLE"

====
